---------------------------- MODULE Spec2Model ----------------------------
(***************************************************************************)
(* State-machine model of zenodopy.Client (src/src/zenodopy/zenodopy.py):  *)
(* the session fields of one client object, the Zenodo deposit server it   *)
(* talks to, and one action per public operation.  Every HTTP request an   *)
(* operation issues is appended to `reqs`; the server answers it according *)
(* to the deposit API, or with an error status when the environment picks  *)
(* a fault for that request.  A second specification, PagesSpec, runs     *)
(* get_all_depositions of src/src/zenodopy/zenodo_marco.py on every       *)
(* bounded listing of depositions.                                        *)
(***************************************************************************)
EXTENDS Integers, Sequences, FiniteSets, TLC

(* ------------------------------ bounds --------------------------------- *)

\* Number of deposition ids the server can hand out.
MaxDeps == 2

\* Number of requests of one operation that the environment may answer with
\* an error status although the server could have served them.
MaxFaults == 1

\* Number of calls the caller makes on one client.
MaxCalls == 2

\* Number of pages of the listing of depositions, and of depositions on one.
MaxPages == 2

MaxPageLen == 2

(* ------------------------------ values --------------------------------- *)

\* Python's None, and a present value: optional values are sequences of
\* length at most one, so that None compares with values of every type.
None == << >>

Some(v) == <<v>>

Val(o) == o[1]

DepIds == 1..MaxDeps

\* Python truthiness of an optional string: None and "" are falsy.
Truthy(o) == o # None /\ o # Some("")

\* Python's `a or b` on optional strings.
Or(o, default) == IF Truthy(o) THEN o ELSE Some(default)

\* Argument values the operations are called with.
TitleArgs == {None, Some("A")}

\* (upload_type, description): both left out, or both supplied.
OptionalArgs == {<<None, None>>, <<Some("dataset"), Some("D")>>}

\* Local paths: "f", "old.zip" and "old.tar.gz" are existing regular files,
\* "dst" an existing directory, "nofile" and "nodir" do not exist.
LocalFiles == {"f", "old.zip", "old.tar.gz"}

LocalDirs == {"dst"}

PathArgs == {Some("f"), Some("nofile")}

DstArgs == {None, Some("dst"), Some("nodir")}

FilenameArgs == {Some("f")}

\* A dotted version string is held as the sequence of its components.
NewVersion == <<2, 0>>

\* (title, upload_type, description, creator, kwargs) of change_metadata:
\* nothing supplied, a title alone, everything with a version on top.
ChangeArgs ==
    {<<None, None, None, None, << >>>>,
     <<Some("A"), None, None, None, << >>>>,
     <<Some("A"), Some("dataset"), Some("D"), Some("C"), [version |-> NewVersion]>>}

\* (source_dir, output_file, publish) of upload_zip: a missing source, the
\* default name, a name without extension, a foreign extension, an archive
\* that exists.
ZipArgs ==
    {<<Some("nodir"), None, FALSE>>,
     <<Some("dst"), None, FALSE>>,
     <<Some("dst"), None, TRUE>>,
     <<Some("dst"), Some("out"), FALSE>>,
     <<Some("dst"), Some("out.rar"), FALSE>>,
     <<Some("dst"), Some("old.zip"), FALSE>>}

\* The same for upload_tar.
TarArgs ==
    {<<Some("nodir"), None, FALSE>>,
     <<Some("dst"), None, FALSE>>,
     <<Some("dst"), None, TRUE>>,
     <<Some("dst"), Some("out"), FALSE>>,
     <<Some("dst"), Some("out.rar"), FALSE>>,
     <<Some("dst"), Some("old.tar.gz"), FALSE>>}

\* ''.join(Path(p).suffixes) of the paths above.
Extension(p) ==
    CASE p = "out.rar" -> ".rar"
      [] p = "old.zip" -> ".zip"
      [] p = "old.tar.gz" -> ".tar.gz"
      [] OTHER -> ""

\* Path(p).stem of a path without a dot.
Stem(p) == p

\* new_metadata of _set_metadata: one key, a version or a title.
NewMetadataArgs == {[version |-> NewVersion], [title |-> "A"]}

\* The (title, bucket, deposition_id, sandbox, token) the constructor is
\* called with and the token file it finds: on the sandbox with a token and
\* nothing else, everything, a bucket alone that is no URL, a deposition_id
\* alone; on production with the token of the file; without a token and
\* without a file; on the sandbox with a file that lacks the sandbox key.
ConstructorArgs ==
    {<<None, None, None, Some(TRUE), Some("t"), None>>,
     <<Some("A"), Some("https://sandbox.zenodo.org/api/files/1"), Some(1), Some(TRUE),
       Some("t"), None>>,
     <<None, Some("not a url"), None, Some(TRUE), Some("t"), None>>,
     <<None, None, Some(1), Some(TRUE), Some("t"), None>>,
     <<None, None, None, None, None,
       Some([k \in {"ACCESS_TOKEN", "ACCESS_TOKEN-sandbox"} |-> "s"])>>,
     <<None, None, Some(1), Some(FALSE), None, None>>,
     <<None, Some("https://sandbox.zenodo.org/api/files/1"), Some(1), Some(TRUE), None,
       Some([k \in {"ACCESS_TOKEN"} |-> "p"])>>}

\* Endpoint that is the sandbox's whatever the flag.
Endpoint_Sandbox(sandbox_arg) == "https://sandbox.zenodo.org/api"

\* self._endpoint: `if sandbox:` takes None and False for production.
Endpoint(sandbox_arg) ==
    IF sandbox_arg = Some(TRUE) THEN "https://sandbox.zenodo.org/api"
    ELSE "https://zenodo.org/api"

\* self._doi_pattern
DoiPattern(sandbox_arg) ==
    IF sandbox_arg = Some(TRUE) THEN "^10\\.5072/zenodo\\.\\d+$"
    ELSE "^10\\.5281/zenodo\\.\\d+$"

\* The key of the token file for the sandbox flag, None when there is no
\* file or the file has no such key.
_read_from_config(sandbox_arg, config) ==
    IF config = None THEN None
    ELSE IF sandbox_arg = Some(TRUE)
    THEN IF "ACCESS_TOKEN-sandbox" \in DOMAIN Val(config)
         THEN Some(Val(config)["ACCESS_TOKEN-sandbox"]) ELSE None
    ELSE IF "ACCESS_TOKEN" \in DOMAIN Val(config)
         THEN Some(Val(config)["ACCESS_TOKEN"]) ELSE None

basename(p) == p

\* The concepts the listed depositions are versions of.
ConceptIds == {"c1", "c2"}

\* The listings of depositions the server can answer get_all_depositions
\* with: up to MaxPages pages, each but the last with a next link, of up to
\* MaxPageLen depositions, every deposition with an id of its own.
Listings ==
    {[p \in 1..Len(c) |->
         [i \in 1..Len(c[p]) |-> [id |-> 10 * p + i, conceptrecid |-> c[p][i]]]] :
        c \in UNION {[1..k -> UNION {[1..n -> ConceptIds] : n \in 0..MaxPageLen}] :
                        k \in 1..MaxPages}}

(* ------------------------------ server --------------------------------- *)

\* links.bucket of deposition d: every draft has a bucket of its own.
BucketUrl(d) == "https://sandbox.zenodo.org/api/files/" \o ToString(d)

\* conceptrecid given to a deposition created from scratch with id d.
NewConcept(d) == "c" \o ToString(d)

AbsentDep ==
    [state |-> "absent", conceptrecid |-> "", title |-> "", version |-> None,
     files |-> {}]

\* The server before any request: no deposition, the first id is 1.
EmptyServer == [deps |-> [d \in DepIds |-> AbsentDep], next |-> 1]

\* Whether the optional id names a deposition the server can return.
Exists(srv, oid) ==
    /\ oid # None
    /\ Val(oid) \in DepIds
    /\ srv.deps[Val(oid)].state \in {"draft", "published"}

Submitted(srv, oid) == Exists(srv, oid) /\ srv.deps[Val(oid)].state = "published"

\* The deposition whose bucket the URL is, None if it is nobody's bucket.
BucketOwner(srv, obucket) ==
    IF obucket # None /\ \E d \in DepIds : BucketUrl(d) = Val(obucket)
                                           /\ Exists(srv, Some(d))
    THEN Some(CHOOSE d \in DepIds : BucketUrl(d) = Val(obucket))
    ELSE None

\* The metadata object of deposition d: "version" is a key only once set.
Metadata(srv, d) ==
    IF srv.deps[d].version = None
    THEN [title |-> srv.deps[d].title]
    ELSE [title |-> srv.deps[d].title, version |-> Val(srv.deps[d].version)]

\* The files array of a deposition's JSON: its files, in the order the server
\* lists them in.
RECURSIVE FilesArray(_)
FilesArray(files) ==
    IF files = {} THEN << >>
    ELSE <<CHOOSE f \in files : TRUE>>
             \o FilesArray(files \ {CHOOSE f \in files : TRUE})

\* JSON of GET /deposit/depositions/{id}.
DepositionJson(srv, d) ==
    [id           |-> d,
     title        |-> srv.deps[d].title,
     conceptrecid |-> srv.deps[d].conceptrecid,
     submitted    |-> srv.deps[d].state = "published",
     bucket       |-> BucketUrl(d),
     metadata     |-> Metadata(srv, d),
     files        |-> FilesArray(srv.deps[d].files)]

\* POST /deposit/depositions: a new empty draft under the next id.
CanCreate(srv) == TRUE

SrvCreate(srv) ==
    [srv EXCEPT !.deps[srv.next] = [AbsentDep EXCEPT
                                       !.state = "draft",
                                       !.conceptrecid = NewConcept(srv.next)],
                !.next = srv.next + 1]

\* PUT /deposit/depositions/{id} with {"metadata": md}: md replaces the
\* metadata of d.
SrvPutMetadata(srv, d, md) ==
    [srv EXCEPT !.deps[d].title = IF "title" \in DOMAIN md THEN md.title ELSE "",
                !.deps[d].version = IF "version" \in DOMAIN md
                                    THEN Some(md.version) ELSE None]

\* A published deposition takes no new metadata unless it is unlocked with
\* the edit action first.
CanPutMetadata(srv, oid) == Exists(srv, oid) /\ ~Submitted(srv, oid)

\* DELETE /deposit/depositions/{id}: only an unpublished deposition.
CanDelete(srv, oid) == Exists(srv, oid) /\ ~Submitted(srv, oid)

SrvDelete(srv, d) == [srv EXCEPT !.deps[d] = [AbsentDep EXCEPT !.state = "deleted"]]

\* POST .../actions/publish: only a draft that holds at least one file.
CanPublish(srv, oid) ==
    /\ Exists(srv, oid)
    /\ ~Submitted(srv, oid)
    /\ srv.deps[Val(oid)].files # {}

SrvPublish(srv, d) == [srv EXCEPT !.deps[d].state = "published"]

\* POST .../actions/newversion: only a published deposition; the draft is
\* a copy under the next id and the same conceptrecid.
CanNewVersion(srv, oid) == Submitted(srv, oid)

SrvNewVersion(srv, d) ==
    [srv EXCEPT !.deps[srv.next] = [srv.deps[d] EXCEPT !.state = "draft"],
                !.next = srv.next + 1]

\* PUT {bucket}/{filename}: only into the bucket of a draft.
CanUpload(srv, obucket) ==
    /\ BucketOwner(srv, obucket) # None
    /\ ~Submitted(srv, BucketOwner(srv, obucket))

SrvUpload(srv, d, filename) == [srv EXCEPT !.deps[d].files = @ \cup {filename}]

\* DELETE of one file of a draft.
SrvDeleteFile(srv, d, filename) == [srv EXCEPT !.deps[d].files = @ \ {filename}]


(* ------------------------- client: plumbing ---------------------------- *)

\* No exception is propagating.
NoExc == "none"

\* {} as a JSON body.
EmptyJson == [k \in {} |-> ""]

UrlDepositions == <<"depositions">>

UrlDeposition(oid) == <<"depositions", oid>>

UrlAction(oid, action) == <<"depositions", oid, "actions", action>>

UrlFiles(oid) == <<"depositions", oid, "files">>

UrlFile(oid, filename) == <<"depositions", oid, "files", filename>>

UrlBucket(obucket, ofilename) == <<"bucket", obucket, ofilename>>

\* The deposition a URL addresses, None for the collection.
UrlTarget(srv, url) ==
    IF url[1] = "bucket" THEN BucketOwner(srv, url[2])
    ELSE IF Len(url) >= 2 THEN url[2]
    ELSE None

\* The answer to the next request of the running operation: success when the
\* server can serve it (servable) and the environment injects no fault.
Ok(m, servable) == servable /\ (Len(m.reqs) + 1) \notin m.faults

\* One call of requests.get/post/put/delete: the request is appended to the
\* log with the answer it got and with whether the deposition it addresses
\* was published when it was sent.
\* Without a token BearerAuth raises TypeError while the request is prepared:
\* nothing is sent, and the machine as it was before the first such request
\* is kept in `unsent`, where the operation ends.
Send(m, method, url, body, servable) ==
    [m EXCEPT !.reqs = Append(@, [method |-> method, url |-> url, body |-> body,
                                  ok |-> m.self._token # None /\ Ok(m, servable),
                                  target_submitted |->
                                      Submitted(m.srv, UrlTarget(m.srv, url))]),
              !.unsent = IF m.self._token = None /\ @ = None
                         THEN Some([self |-> m.self, srv |-> m.srv, disk |-> m.disk])
                         ELSE @]

\* Whether the request just sent was answered with success.
LastOk(m) == m.reqs[Len(m.reqs)].ok

\* The body of the request just sent.
LastBody(m) == Val(m.reqs[Len(m.reqs)].body)

Raise(m, e) == [m EXCEPT !.exc = e, !.ret = None]

Return(m, v) == [m EXCEPT !.ret = v]

(* ------------------------- client: operations -------------------------- *)
(* An operation is an operator from the machine m it starts in (session,   *)
(* server, disk, request log, environment choices) to the machine it ends  *)
(* in; the steps of a longer operation are operators of their own, each    *)
(* handing the machine it reached to the next.                             *)

\* if r.ok: return r.json() else: return r.raise_for_status()
JsonOrRaise(m1, dep_id) ==
    IF LastOk(m1) THEN Return(m1, Some(DepositionJson(m1.srv, Val(dep_id))))
    ELSE Raise(m1, "HTTPError")

_get_depositions_by_id(m, dep_id) ==
    JsonOrRaise(Send(m, "GET", UrlDeposition(dep_id), None, Exists(m.srv, dep_id)),
                dep_id)

BucketOrRaise(m1, dep_id) ==
    IF LastOk(m1) THEN Return(m1, Some(DepositionJson(m1.srv, Val(dep_id)).bucket))
    ELSE Raise(m1, "HTTPError")

_get_bucket_by_id(m, dep_id) ==
    BucketOrRaise(Send(m, "GET", UrlDeposition(dep_id), None, Exists(m.srv, dep_id)),
                  dep_id)

\* SubmittedOrNone that reports every deposition it finds as published.
SubmittedOrNone_Found(m1, dep_id) ==
    IF LastOk(m1) THEN Return(m1, Some(TRUE)) ELSE Return(m1, None)

\* deposition_data.get('submitted', '') on status 200, None otherwise
SubmittedOrNone(m1, dep_id) ==
    IF LastOk(m1) THEN Return(m1, Some(DepositionJson(m1.srv, Val(dep_id)).submitted))
    ELSE Return(m1, None)

_is_published(m, dep_id) ==
    IF dep_id = None THEN Return(m, None)
    ELSE SubmittedOrNone(Send(m, "GET", UrlDeposition(dep_id), None,
                              Exists(m.srv, dep_id)),
                         dep_id)

\* The property is_published: _is_published() on the session's deposition.
is_published(m) == _is_published(m, m.self.deposition_id)

\* The filenames of dep['files'], the empty list when dep is None.
list_files_got(m1) ==
    IF m1.exc # NoExc THEN m1
    ELSE IF m1.ret = None THEN Return(m1, Some(<< >>))
    ELSE Return(m1, Some(Val(m1.ret).files))

\* The property list_files.
list_files(m) == list_files_got(_get_depositions_by_id(m, m.self.deposition_id))

\* AppendNew that keeps every deposition of the page.
AppendNew_All(acc, page, i) ==
    [all_depositions |-> acc.all_depositions \o SubSeq(page, i, Len(page)),
     concept_ids_processed |->
         acc.concept_ids_processed \cup {page[j].conceptrecid : j \in i..Len(page)}]

\* for deposition in depositions: append the ones whose conceptrecid was not
\* seen yet, from the i-th on.
RECURSIVE AppendNew(_, _, _)
AppendNew(acc, page, i) ==
    IF i > Len(page) THEN acc
    ELSE AppendNew(IF page[i].conceptrecid \in acc.concept_ids_processed THEN acc
                   ELSE [all_depositions |-> Append(acc.all_depositions, page[i]),
                         concept_ids_processed |->
                             acc.concept_ids_processed \cup {page[i].conceptrecid}],
                   page, i + 1)

RECURSIVE get_all_depositions_from(_, _, _, _)

\* raise_for_status; stop at an empty page; take the page; stop when the
\* response has no next link, else go on with that link.
get_all_depositions_got(m1, pages, url, acc) ==
    IF ~LastOk(m1) THEN Raise(m1, "HTTPError")
    ELSE IF pages[url] = << >> THEN Return(m1, Some(acc.all_depositions))
    ELSE IF url = Len(pages)
    THEN Return(m1, Some(AppendNew(acc, pages[url], 1).all_depositions))
    ELSE get_all_depositions_from(m1, pages, url + 1, AppendNew(acc, pages[url], 1))

\* One round of `while True`: the GET of the page url names.
get_all_depositions_from(m, pages, url, acc) ==
    get_all_depositions_got(
        Send(m, "GET", UrlDepositions, Some([page |-> url]), TRUE), pages, url, acc)

\* Client.get_all_depositions of zenodo_marco.py
get_all_depositions(m, pages) ==
    get_all_depositions_from(m, pages, 1,
                             [all_depositions |-> << >>, concept_ids_processed |-> {}])

_unset_project(self) ==
    [self EXCEPT !.title = None, !.bucket = None, !.deposition_id = None,
                 !.concept_id = None, !.associated = FALSE]

\* NewMetadata with the upload_type argument dropped.
NewMetadata_NoUploadType(title_arg, upload_type, description, creator) ==
    [title       |-> Val(Or(title_arg, "Title goes here")),
     upload_type |-> "other",
     description |-> Val(Or(description, "Description goes here")),
     creators    |-> <<[name |-> Val(Or(creator, "Creator goes here"))]>>]

\* The metadata object change_metadata builds.
NewMetadata(title_arg, upload_type, description, creator) ==
    [title       |-> Val(Or(title_arg, "Title goes here")),
     upload_type |-> Val(Or(upload_type, "other")),
     description |-> Val(Or(description, "Description goes here")),
     creators    |-> <<[name |-> Val(Or(creator, "Creator goes here"))]>>]

\* dict.update on JSON objects: b's keys with b's values, a's other keys
\* as they were.
DictUpdate(a, b) ==
    [k \in DOMAIN a \cup DOMAIN b |-> IF k \in DOMAIN b THEN b[k] ELSE a[k]]

change_metadata_put(m1, dep_id) ==
    IF LastOk(m1)
    THEN Return([m1 EXCEPT !.srv = SrvPutMetadata(m1.srv, Val(dep_id),
                                                  LastBody(m1).metadata)],
                Some("json"))
    ELSE Raise(m1, "HTTPError")

\* change_metadata that starts from the metadata the deposition has.
change_metadata_Merging(m, dep_id, title_arg, upload_type, description, creator, kwargs) ==
    change_metadata_put(
        Send(m, "PUT", UrlDeposition(dep_id),
             Some([metadata |->
                      DictUpdate(DictUpdate(IF Exists(m.srv, dep_id)
                                            THEN Metadata(m.srv, Val(dep_id))
                                            ELSE EmptyJson,
                                            NewMetadata(title_arg, upload_type,
                                                        description, creator)),
                                 kwargs)]),
             CanPutMetadata(m.srv, dep_id)),
        dep_id)

\* The keyword fields are values that are no dict: each one is set on the
\* metadata object built from the arguments.
change_metadata(m, dep_id, title_arg, upload_type, description, creator, kwargs) ==
    change_metadata_put(
        Send(m, "PUT", UrlDeposition(dep_id),
             Some([metadata |->
                      DictUpdate(NewMetadata(title_arg, upload_type, description, creator),
                                 kwargs)]),
             CanPutMetadata(m.srv, dep_id)),
        dep_id)

\* create_project_set that leaves the bucket of the previous deposition.
create_project_set_KeepsBucket(m2, new_id, title_arg) ==
    IF m2.exc # NoExc THEN m2
    ELSE Return([m2 EXCEPT !.self.deposition_id = Some(new_id),
                           !.self.title = title_arg,
                           !.self.associated = TRUE],
                None)

create_project_set(m2, new_id, title_arg) ==
    IF m2.exc # NoExc THEN m2
    ELSE Return([m2 EXCEPT !.self.deposition_id = Some(new_id),
                           !.self.bucket = Some(BucketUrl(new_id)),
                           !.self.title = title_arg,
                           !.self.associated = TRUE],
                None)

create_project_post(m1, title_arg, upload_type, description) ==
    IF ~LastOk(m1) THEN Return(m1, None)
    ELSE create_project_set(
             change_metadata([m1 EXCEPT !.srv = SrvCreate(m1.srv)], Some(m1.srv.next),
                             title_arg, upload_type, description, None, EmptyJson),
             m1.srv.next, title_arg)

create_project(m, title_arg, upload_type, description) ==
    create_project_post(Send(m, "POST", UrlDepositions, Some(EmptyJson), CanCreate(m.srv)),
                        title_arg, upload_type, description)

\* set_project_set that does not take over the conceptrecid.
set_project_set_NoConcept(m3, dep_id, projects) ==
    IF m3.exc # NoExc THEN m3
    ELSE Return([m3 EXCEPT !.self.bucket = m3.ret,
                           !.self.deposition_id = dep_id,
                           !.self.associated = TRUE],
                None)

set_project_set(m3, dep_id, projects) ==
    IF m3.exc # NoExc THEN m3
    ELSE Return([m3 EXCEPT !.self.bucket = m3.ret,
                           !.self.deposition_id = dep_id,
                           !.self.concept_id = Some(projects.conceptrecid),
                           !.self.associated = TRUE],
                None)

set_project_get(m1, dep_id) ==
    IF m1.exc # NoExc THEN m1
    ELSE set_project_set(
             _get_bucket_by_id([m1 EXCEPT !.self.title = Some(Val(m1.ret).title)], dep_id),
             dep_id, Val(m1.ret))

set_project(m, dep_id) ==
    set_project_get(
        _get_depositions_by_id([m EXCEPT !.self = _unset_project(m.self)], dep_id),
        dep_id)

\* reset class variables to None
_delete_project_reset(m2, dep_id) ==
    IF dep_id = m2.self.deposition_id
    THEN Return([m2 EXCEPT !.self.title = None, !.self.bucket = None,
                           !.self.deposition_id = None, !.self.concept_id = None],
                None)
    ELSE Return(m2, None)

_delete_project_sent(m1, dep_id) ==
    IF ~LastOk(m1) THEN Raise(m1, "Exception")
    ELSE _delete_project_reset([m1 EXCEPT !.srv = SrvDelete(m1.srv, Val(dep_id))], dep_id)

_delete_project_id(m, dep_id) ==
    _delete_project_sent(
        Send(m, "DELETE", UrlDeposition(dep_id), None, CanDelete(m.srv, dep_id)), dep_id)

_delete_project(m, dep_id_arg) ==
    _delete_project_id(m, IF dep_id_arg = None THEN m.self.deposition_id ELSE dep_id_arg)

\* validate_url on the bucket values of the model: the buckets the server
\* hands out match the pattern, the string "not a url" does not.
validate_url(url) == \E d \in DepIds : url = BucketUrl(d)

\* links.get('publish') / links['newversion'] of a GET answer: the link of an
\* action the deposition's state allows is present; whether the server also
\* lists the links of the other actions is the environment's choice.
HasLink(m, dep_id, action) ==
    \/ m.all_links
    \/ action = "publish" /\ ~Submitted(m.srv, dep_id)
    \/ action = "newversion" /\ Submitted(m.srv, dep_id)

publish_sent(m3) ==
    IF LastOk(m3)
    THEN Return([m3 EXCEPT !.srv = SrvPublish(m3.srv, Val(m3.self.deposition_id))],
                Some("json"))
    \* raise_for_status raises HTTPError, which is caught and printed
    ELSE Return(m3, None)

publish_checked(m2) ==
    IF m2.ret = Some(TRUE) THEN Return(m2, None)
    ELSE publish_sent(Send(m2, "POST", UrlAction(m2.self.deposition_id, "publish"), None,
                           CanPublish(m2.srv, m2.self.deposition_id)))

publish_got(m1) ==
    \* except HTTPError: print(r.text), with r not assigned yet
    IF m1.exc # NoExc THEN Raise(m1, "UnboundLocalError")
    ELSE IF ~HasLink(m1, m1.self.deposition_id, "publish") THEN Return(m1, None)
    ELSE publish_checked(is_published(m1))

publish(m) ==
    IF ~m.self.associated THEN Return(m, None)
    \* the TypeError of BearerAuth is caught by `except Exception` and printed
    ELSE IF m.self._token = None THEN Return(m, None)
    ELSE publish_got(_get_depositions_by_id(m, m.self.deposition_id))

\* custom_filename if custom_filename else os.path.basename(file_path)
Filename(file_path, custom_filename) ==
    IF Truthy(custom_filename) THEN Val(custom_filename) ELSE basename(Val(file_path))

\* The server after the upload PUT just sent: the bucket's deposition holds
\* the file if the PUT was answered with success.
Uploaded(m1, filename) ==
    IF LastOk(m1)
    THEN [m1 EXCEPT !.srv = SrvUpload(m1.srv, Val(BucketOwner(m1.srv, m1.self.bucket)),
                                      filename)]
    ELSE m1

upload_file_publish(m2, publish_arg) ==
    IF publish_arg THEN Return(publish(m2), None) ELSE Return(m2, None)

upload_file(m, file_path, custom_filename, publish_arg) ==
    IF ~m.self.associated THEN Return(m, None)
    ELSE IF file_path = None THEN Return(m, None)
    ELSE IF Val(file_path) \notin m.disk THEN Return(m, None)
    ELSE IF m.self.bucket = None THEN Return(m, None)
    ELSE upload_file_publish(
             Uploaded(Send(m, "PUT",
                           UrlBucket(m.self.bucket, Some(Filename(file_path, custom_filename))),
                           file_path, CanUpload(m.srv, m.self.bucket)),
                      Filename(file_path, custom_filename)),
             publish_arg)

\* IncrementVersion that raises the first component.
IncrementVersion_First(v) == [v EXCEPT ![1] = @ + 1]

\* version_parts[-1] = str(int(version_parts[-1]) + 1) on a dotted version,
\* held as the sequence of its numeric components.
IncrementVersion(v) == [v EXCEPT ![Len(v)] = @ + 1]

\* metadata.get('version', '1.0.0')
DefaultVersion == <<1, 0, 0>>

\* The re-fetched metadata with metadata['version'] = new_version.
BumpedMetadata(metadata) ==
    [title   |-> metadata.title,
     version |-> IncrementVersion(IF "version" \in DOMAIN metadata
                                  THEN metadata.version ELSE DefaultVersion)]

update_file_published(m9, draft_id) ==
    IF ~LastOk(m9) THEN Raise(m9, "Exception")
    ELSE Return([m9 EXCEPT !.srv = SrvPublish(m9.srv, Val(draft_id))],
                Some([DepositionJson(m9.srv, Val(draft_id)) EXCEPT !.submitted = TRUE]))

\* publish if requested, else return response.json() of the last response
update_file_finish(m, draft_id, was_published, deleted, publish_arg) ==
    IF publish_arg
    THEN update_file_published(
             Send(m, "POST", UrlAction(draft_id, "publish"), None,
                  CanPublish(m.srv, draft_id)),
             draft_id)
    ELSE IF was_published THEN Return(m, Some(DepositionJson(m.srv, Val(draft_id))))
    \* the answer to the DELETE has no body
    ELSE IF deleted THEN Raise(m, "JSONDecodeError")
    ELSE Return(m, Some([files_of |-> draft_id]))

update_file_put(m8, draft_id, deleted, publish_arg) ==
    IF ~LastOk(m8) THEN Raise(m8, "Exception")
    ELSE update_file_finish(
             [m8 EXCEPT !.srv = SrvPutMetadata(m8.srv, Val(draft_id), LastBody(m8).metadata)],
             draft_id, TRUE, deleted, publish_arg)

update_file_bump(m7, draft_id, deleted, publish_arg) ==
    IF ~LastOk(m7) THEN Raise(m7, "Exception")
    ELSE update_file_put(
             Send(m7, "PUT", UrlDeposition(draft_id),
                  Some([metadata |-> BumpedMetadata(Metadata(m7.srv, Val(draft_id)))]),
                  CanPutMetadata(m7.srv, draft_id)),
             draft_id, deleted, publish_arg)

\* update metadata (increment version number if published)
update_file_metadata(m6, draft_id, was_published, deleted, publish_arg) ==
    IF m6.exc # NoExc THEN m6
    ELSE IF was_published
    THEN update_file_bump(
             Send(m6, "GET", UrlDeposition(draft_id), None, Exists(m6.srv, draft_id)),
             draft_id, deleted, publish_arg)
    ELSE update_file_finish(m6, draft_id, FALSE, deleted, publish_arg)

\* if publish: self.publish()
update_file_chain(m5, draft_id, was_published, deleted, publish_arg) ==
    update_file_metadata(IF publish_arg THEN publish(m5) ELSE m5,
                         draft_id, was_published, deleted, publish_arg)

\* upload the bytes to the session's bucket
update_file_upload(m, draft_id, was_published, deleted, file_path, custom_filename, publish_arg) ==
    IF Val(file_path) \notin m.disk THEN Raise(m, "FileNotFoundError")
    \* requests refuses the URL "None/<filename>"
    ELSE IF m.self.bucket = None THEN Raise(m, "MissingSchema")
    ELSE update_file_chain(
             Uploaded(Send(m, "PUT",
                           UrlBucket(m.self.bucket, Some(Filename(file_path, custom_filename))),
                           file_path, CanUpload(m.srv, m.self.bucket)),
                      Filename(file_path, custom_filename)),
             draft_id, was_published, deleted, publish_arg)

\* update_file_deleted that uploads whatever the answer to the DELETE.
update_file_deleted_Unchecked(m4, draft_id, was_published, file_path, custom_filename, publish_arg) ==
    update_file_upload(
        IF LastOk(m4)
        THEN [m4 EXCEPT !.srv = SrvDeleteFile(m4.srv, Val(draft_id),
                                              Filename(file_path, custom_filename))]
        ELSE m4,
        draft_id, was_published, TRUE, file_path, custom_filename, publish_arg)

update_file_deleted(m4, draft_id, was_published, file_path, custom_filename, publish_arg) ==
    IF ~LastOk(m4) THEN Raise(m4, "Exception")
    ELSE update_file_upload(
             [m4 EXCEPT !.srv = SrvDeleteFile(m4.srv, Val(draft_id),
                                              Filename(file_path, custom_filename))],
             draft_id, was_published, TRUE, file_path, custom_filename, publish_arg)

\* delete the old file if it exists
update_file_delete(m3, draft_id, was_published, file_path, custom_filename, publish_arg) ==
    IF ~LastOk(m3) THEN Raise(m3, "Exception")
    ELSE IF Filename(file_path, custom_filename) \in m3.srv.deps[Val(draft_id)].files
    THEN update_file_deleted(
             Send(m3, "DELETE",
                  UrlFile(draft_id, Filename(file_path, custom_filename)), None,
                  ~Submitted(m3.srv, draft_id)),
             draft_id, was_published, file_path, custom_filename, publish_arg)
    ELSE update_file_upload(m3, draft_id, was_published, FALSE, file_path,
                            custom_filename, publish_arg)

\* retrieve the file list
update_file_list(m, draft_id, was_published, file_path, custom_filename, publish_arg) ==
    update_file_delete(
        Send(m, "GET", UrlFiles(draft_id), None, Exists(m.srv, draft_id)),
        draft_id, was_published, file_path, custom_filename, publish_arg)

update_file_draft(m2, file_path, custom_filename, publish_arg) ==
    IF ~LastOk(m2) THEN Raise(m2, "Exception")
    ELSE update_file_list(
             [m2 EXCEPT !.srv = SrvNewVersion(m2.srv, Val(m2.self.deposition_id))],
             Some(m2.srv.next), TRUE, file_path, custom_filename, publish_arg)

\* create a new version if the deposition is published
update_file_version(m1, file_path, custom_filename, publish_arg) ==
    IF m1.ret = Some(TRUE)
    THEN update_file_draft(
             Send(m1, "POST", UrlAction(m1.self.deposition_id, "newversion"), None,
                  CanNewVersion(m1.srv, m1.self.deposition_id)),
             file_path, custom_filename, publish_arg)
    ELSE update_file_list(m1, m1.self.deposition_id, FALSE, file_path,
                          custom_filename, publish_arg)

update_file(m, file_path, custom_filename, publish_arg) ==
    IF ~m.self.associated THEN Return(m, None)
    ELSE update_file_version(_is_published(m, m.self.deposition_id),
                             file_path, custom_filename, publish_arg)

\* invoke upload functions
update_upload(m3, source, publish_arg) ==
    IF m3.exc # NoExc THEN m3
    ELSE IF source = None THEN Raise(m3, "TypeError")
    ELSE IF Val(source) \in m3.disk THEN upload_file(m3, source, None, publish_arg)
    ELSE Raise(m3, "FileNotFoundError")

\* parse current project to the draft deposition
update_draft(m2, source, publish_arg) ==
    IF ~LastOk(m2) THEN Raise(m2, "HTTPError")
    ELSE update_upload(
             set_project([m2 EXCEPT !.srv = SrvNewVersion(m2.srv, Val(m2.self.deposition_id))],
                         Some(m2.srv.next)),
             source, publish_arg)

\* create a draft deposition
update_got(m1, source, publish_arg) ==
    IF m1.exc # NoExc THEN m1
    ELSE IF ~HasLink(m1, m1.self.deposition_id, "newversion") THEN Raise(m1, "KeyError")
    ELSE update_draft(
             Send(m1, "POST", UrlAction(m1.self.deposition_id, "newversion"), None,
                  CanNewVersion(m1.srv, m1.self.deposition_id)),
             source, publish_arg)

\* An unassociated client prints a message and goes on.
update(m, source, publish_arg) ==
    update_got(_get_depositions_by_id(m, m.self.deposition_id), source, publish_arg)

\* Whether the bucket holds the file, so that a GET or DELETE of it succeeds.
Holds(srv, obucket, filename) ==
    /\ BucketOwner(srv, obucket) # None
    /\ filename # None
    /\ Val(filename) \in srv.deps[Val(BucketOwner(srv, obucket))].files

download_file_got(m1, filename, dst_path) ==
    IF dst_path # None /\ Val(dst_path) \notin LocalDirs
    THEN Raise(m1, "FileNotFoundError")
    \* dst_path + '/' + filename with no filename
    ELSE IF dst_path # None /\ filename = None THEN Raise(m1, "TypeError")
    ELSE IF LastOk(m1)
    THEN Return([m1 EXCEPT !.disk = @ \cup {IF dst_path = None THEN Val(filename)
                                            ELSE Val(dst_path) \o "/" \o Val(filename)}],
                None)
    ELSE Return(m1, None)

\* An unassociated client prints a message and goes on.
download_file(m, filename, dst_path) ==
    IF m.self.bucket = None THEN Return(m, None)
    ELSE IF ~validate_url(Val(m.self.bucket)) THEN Return(m, None)
    ELSE download_file_got(
             Send(m, "GET", UrlBucket(m.self.bucket, filename), None,
                  Holds(m.srv, m.self.bucket, filename)),
             filename, dst_path)

\* The answer to the DELETE is not looked at.
delete_file_sent(m1, filename) ==
    IF LastOk(m1)
    THEN Return([m1 EXCEPT !.srv = SrvDeleteFile(m1.srv,
                                                 Val(BucketOwner(m1.srv, m1.self.bucket)),
                                                 Val(filename))],
                None)
    ELSE Return(m1, None)

delete_file(m, filename) ==
    IF ~m.self.associated THEN Return(m, None)
    \* requests refuses the URL "None/<filename>"
    ELSE IF m.self.bucket = None THEN Raise(m, "MissingSchema")
    ELSE delete_file_sent(
             Send(m, "DELETE", UrlBucket(m.self.bucket, filename), None,
                  CanUpload(m.srv, m.self.bucket) /\ Holds(m.srv, m.self.bucket, filename)),
             filename)

\* Path(p).exists()
PathExists(m, p) == p \in m.disk \/ p \in LocalDirs

\* upload_archive_remove that keeps an archive whose upload did not succeed.
upload_archive_remove_OnSuccess(m2, output_file) ==
    IF m2.exc # NoExc THEN m2
    ELSE IF m2.reqs # << >> /\ m2.reqs[1].ok
    THEN Return([m2 EXCEPT !.disk = @ \ {output_file}], None)
    ELSE Return(m2, None)

\* remove the archive after uploading it
upload_archive_remove(m2, output_file) ==
    IF m2.exc # NoExc THEN m2
    ELSE Return([m2 EXCEPT !.disk = @ \ {output_file}], None)

\* upload_archive_make that builds the archive over one that exists.
upload_archive_make_Overwriting(m, output_file, publish_arg) ==
    upload_archive_remove(
        upload_file([m EXCEPT !.disk = @ \cup {output_file}], Some(output_file), None,
                    publish_arg),
        output_file)

\* Refuse an output path that exists, else build the archive (its parent
\* directory is the current one) and hand it to upload_file.
upload_archive_make(m, output_file, publish_arg) ==
    IF PathExists(m, output_file) THEN Raise(m, "Exception")
    ELSE upload_archive_remove(
             upload_file([m EXCEPT !.disk = @ \cup {output_file}], Some(output_file), None,
                         publish_arg),
             output_file)

\* The name of the archive: the source's with the extension when none is
\* given; a given name is tested against the accepted extension first and
\* gets the extension appended after that test if it has none.
upload_archive_name(m, source_dir, output_file, publish_arg, extension) ==
    IF ~Truthy(output_file)
    THEN upload_archive_make(m, Stem(Val(source_dir)) \o extension, publish_arg)
    ELSE IF Extension(Val(output_file)) # extension THEN Raise(m, "Exception")
    ELSE IF Extension(Val(output_file)) = ""
    THEN upload_archive_make(m, Val(output_file) \o extension, publish_arg)
    ELSE upload_archive_make(m, Val(output_file), publish_arg)

upload_zip(m, source_dir, output_file, publish_arg) ==
    IF ~m.self.associated THEN Return(m, None)
    ELSE IF ~PathExists(m, Val(source_dir)) THEN Raise(m, "FileNotFoundError")
    ELSE upload_archive_name(m, source_dir, output_file, publish_arg, ".zip")

upload_tar(m, source_dir, output_file, publish_arg) ==
    IF ~m.self.associated THEN Return(m, None)
    ELSE IF ~PathExists(m, Val(source_dir)) THEN Raise(m, "FileNotFoundError")
    ELSE upload_archive_name(m, source_dir, output_file, publish_arg, ".tar.gz")

_get_metadata_got(m1, dep_id) ==
    IF LastOk(m1) THEN Return(m1, Some(Metadata(m1.srv, Val(dep_id))))
    ELSE Return(m1, None)

_get_metadata_id(m, dep_id) ==
    _get_metadata_got(Send(m, "GET", UrlDeposition(dep_id), None, Exists(m.srv, dep_id)),
                      dep_id)

_get_metadata(m, dep_id_arg) ==
    _get_metadata_id(m, IF dep_id_arg = None THEN m.self.deposition_id ELSE dep_id_arg)

\* The answer to the PUT is only printed.
_set_metadata_sent(m2, dep_id) ==
    IF LastOk(m2)
    THEN Return([m2 EXCEPT !.srv = SrvPutMetadata(m2.srv, Val(dep_id),
                                                  LastBody(m2).metadata)],
                None)
    ELSE Return(m2, None)

\* The new metadata alone when the current one could not be fetched, else
\* the current one updated with it; then the keyword fields.
_set_metadata_merge(m1, new_metadata, dep_id, kwargs) ==
    _set_metadata_sent(
        Send(m1, "PUT", UrlDeposition(dep_id),
             Some([metadata |->
                      DictUpdate(IF m1.ret = None THEN new_metadata
                                 ELSE DictUpdate(Val(m1.ret), new_metadata),
                                 kwargs)]),
             CanPutMetadata(m1.srv, dep_id)),
        dep_id)

_set_metadata_id(m, new_metadata, dep_id, kwargs) ==
    IF dep_id = None THEN Return(m, None)
    ELSE _set_metadata_merge(_get_metadata(m, dep_id), new_metadata, dep_id, kwargs)

_set_metadata(m, new_metadata, dep_id_arg, kwargs) ==
    _set_metadata_id(m, new_metadata,
                     IF dep_id_arg = None THEN m.self.deposition_id ELSE dep_id_arg,
                     kwargs)

(* ------------------------------- state --------------------------------- *)

VARIABLES
    title, bucket, deposition_id, concept_id, associated,  \* the session fields
    sandbox, _endpoint, _doi_pattern, _token,  \* the fields set at construction
    listing,    \* the pages the server answers the listing of depositions with
    server,     \* the depositions the server holds
    disk,       \* the local files that exist
    op,         \* the last operation called: its name and arguments
    reqs,       \* the requests it issued, in order, each with its answer
    raised,     \* the exception it raised, NoExc if it returned
    result,     \* the value it returned
    calls       \* the number of calls the caller has made

session == <<title, bucket, deposition_id, concept_id, associated>>

vars == <<title, bucket, deposition_id, concept_id, associated,
          sandbox, _endpoint, _doi_pattern, _token, listing,
          server, disk, op, reqs, raised, result, calls>>

\* The session fields as the object the operations work on.
Self ==
    [title |-> title, bucket |-> bucket, deposition_id |-> deposition_id,
     concept_id |-> concept_id, associated |-> associated,
     sandbox |-> sandbox, _endpoint |-> _endpoint, _doi_pattern |-> _doi_pattern,
     _token |-> _token]

\* The fault sets the environment can choose for an operation that issues at
\* most n requests: at most MaxFaults of them, named by their position.
FaultSets(n) == {F \in SUBSET (1..n) : Cardinality(F) <= MaxFaults}

\* The environment's choice of listing every action link matters only to an
\* operation that reads one.
LinkChoices(reads_links) == IF reads_links THEN BOOLEAN ELSE {FALSE}

\* The operation's starting point under the environment's choices.
Machine(faults, all_links) ==
    [self |-> Self, srv |-> server, disk |-> disk, reqs |-> << >>,
     exc |-> NoExc, ret |-> None, faults |-> faults, all_links |-> all_links,
     unsent |-> None]

\* The model holds MaxDeps depositions: an operation that may make the server
\* create one more is not called once they are used up.
IdsLeft == server.next \in DepIds

\* The caller is between two calls: it has constructed the client, or has
\* taken note of how the previous call ended.
Idle == op.name \in {"__init__", "ready"}

\* The caller makes at most MaxCalls calls.
Ready == Idle /\ calls < MaxCalls

\* The machine an operation ends in: where it got to, or, when BearerAuth
\* raised, where it was before the request, with the TypeError propagating.
Outcome(m) ==
    IF m.unsent = None THEN m
    ELSE [m EXCEPT !.self = Val(m.unsent).self, !.srv = Val(m.unsent).srv,
                   !.disk = Val(m.unsent).disk, !.reqs = << >>,
                   !.exc = "TypeError", !.ret = None]

\* The state after operation `name` called with `args` ended in m.
Ended(name, args, m) ==
    /\ Ready
    /\ title' = m.self.title
    /\ bucket' = m.self.bucket
    /\ deposition_id' = m.self.deposition_id
    /\ concept_id' = m.self.concept_id
    /\ associated' = m.self.associated
    /\ sandbox' = m.self.sandbox
    /\ _endpoint' = m.self._endpoint
    /\ _doi_pattern' = m.self._doi_pattern
    /\ _token' = m.self._token
    /\ listing' = listing
    /\ server' = m.srv
    /\ disk' = m.disk
    /\ op' = [name |-> name, args |-> args]
    /\ reqs' = m.reqs
    /\ raised' = m.exc
    /\ result' = m.ret
    /\ calls' = calls + 1

Ends(name, args, m) == Ended(name, args, Outcome(m))

\* Client.__init__ with any title, bucket and deposition_id, against a
\* server that holds nothing, one untitled draft, or one published
\* deposition with a title and a version.
InitialServers ==
    {EmptyServer,
     SrvUpload(SrvCreate(EmptyServer), 1, "f"),
     SrvPublish(SrvPutMetadata(SrvUpload(SrvCreate(EmptyServer), 1, "f"), 1,
                               [title |-> "A", version |-> NewVersion]),
                1)}

Init ==
    /\ \E a \in ConstructorArgs :
           /\ title = a[1]
           /\ bucket = a[2]
           /\ deposition_id = a[3]
           /\ sandbox = a[4]
           /\ _endpoint = Endpoint(a[4])
           /\ _doi_pattern = DoiPattern(a[4])
           /\ _token = IF a[5] = None THEN _read_from_config(a[4], a[6]) ELSE a[5]
    /\ listing = << >>
    /\ concept_id = None
    /\ associated = FALSE
    /\ server \in InitialServers
    /\ disk = LocalFiles
    /\ op = [name |-> "__init__", args |-> <<title, bucket, deposition_id, sandbox>>]
    /\ reqs = << >>
    /\ raised = NoExc
    /\ result = None
    /\ calls = 0

(* ------------------------------ actions -------------------------------- *)

CreateProject ==
    /\ IdsLeft
    /\ \E t \in TitleArgs, o \in OptionalArgs, F \in FaultSets(2) :
        Ends("create_project", <<t, o[1], o[2]>>,
             create_project(Machine(F, FALSE), t, o[1], o[2]))

SetProject ==
    \E d \in DepIds, F \in FaultSets(2) :
        Ends("set_project", <<Some(d)>>, set_project(Machine(F, FALSE), Some(d)))

UnsetProject ==
    Ends("_unset_project", << >>,
         [Machine({}, FALSE) EXCEPT !.self = _unset_project(Self)])

DeleteProject ==
    \E a \in {None} \cup {Some(d) : d \in DepIds}, F \in FaultSets(1) :
        Ends("_delete_project", <<a>>, _delete_project(Machine(F, FALSE), a))

Publish ==
    \E F \in FaultSets(3), L \in BOOLEAN :
        Ends("publish", << >>, publish(Machine(F, L)))

UploadFile ==
    \E p \in PathArgs, b \in BOOLEAN :
        \E F \in FaultSets(IF b THEN 4 ELSE 1), L \in LinkChoices(b) :
            Ends("upload_file", <<p, None, b>>,
                 upload_file(Machine(F, L), p, None, b))

UpdateFile ==
    /\ Submitted(server, deposition_id) => IdsLeft
    /\ \E p \in PathArgs, b \in BOOLEAN :
        \E F \in FaultSets(IF b THEN 11 ELSE 7), L \in LinkChoices(b) :
            Ends("update_file", <<p, None, b>>,
                 update_file(Machine(F, L), p, None, b))

Update ==
    /\ Submitted(server, deposition_id) => IdsLeft
    /\ \E p \in PathArgs, b \in BOOLEAN :
        \E F \in FaultSets(IF b THEN 8 ELSE 5), L \in BOOLEAN :
            Ends("update", <<p, b>>, update(Machine(F, L), p, b))

DownloadFile ==
    \E f \in FilenameArgs, d \in DstArgs, F \in FaultSets(1) :
        Ends("download_file", <<f, d>>, download_file(Machine(F, FALSE), f, d))

ChangeMetadata ==
    \E d \in DepIds, a \in ChangeArgs, F \in FaultSets(1) :
        Ends("change_metadata", <<Some(d), a[1], a[2], a[3], a[4], a[5]>>,
             change_metadata(Machine(F, FALSE), Some(d), a[1], a[2], a[3], a[4], a[5]))

GetMetadata ==
    \E F \in FaultSets(1) :
        Ends("_get_metadata", <<None>>, _get_metadata(Machine(F, FALSE), None))

SetMetadata ==
    \E n \in NewMetadataArgs, F \in FaultSets(2) :
        Ends("_set_metadata", <<n, None>>,
             _set_metadata(Machine(F, FALSE), n, None, << >>))

UploadZip ==
    \E a \in ZipArgs :
        \E F \in FaultSets(IF a[3] THEN 4 ELSE 1), L \in LinkChoices(a[3]) :
            Ends("upload_zip", a, upload_zip(Machine(F, L), a[1], a[2], a[3]))

UploadTar ==
    \E a \in TarArgs :
        \E F \in FaultSets(IF a[3] THEN 4 ELSE 1), L \in LinkChoices(a[3]) :
            Ends("upload_tar", a, upload_tar(Machine(F, L), a[1], a[2], a[3]))

DeleteFile ==
    \E f \in FilenameArgs, F \in FaultSets(1) :
        Ends("delete_file", <<f>>, delete_file(Machine(F, FALSE), f))

IsPublished ==
    \E F \in FaultSets(1) :
        Ends("is_published", << >>, is_published(Machine(F, FALSE)))

ListFiles ==
    \E F \in FaultSets(1) :
        Ends("list_files", << >>, list_files(Machine(F, FALSE)))

\* The caller takes note of the outcome of the call and gets ready for the
\* next one; the client and the server are untouched.
NextCall ==
    /\ ~Idle
    /\ op' = [name |-> "ready", args |-> << >>]
    /\ reqs' = << >>
    /\ raised' = NoExc
    /\ result' = None
    /\ UNCHANGED <<title, bucket, deposition_id, concept_id, associated, sandbox,
                   _endpoint, _doi_pattern, _token, listing, server, disk, calls>>

Next ==
    \/ NextCall
    \/ CreateProject
    \/ SetProject
    \/ UnsetProject
    \/ DeleteProject
    \/ Publish
    \/ UploadFile
    \/ UpdateFile
    \/ Update
    \/ DownloadFile
    \/ DeleteFile
    \/ UploadZip
    \/ UploadTar
    \/ ChangeMetadata
    \/ GetMetadata
    \/ SetMetadata
    \/ IsPublished
    \/ ListFiles

Spec == Init /\ [][Next]_vars

(* --------------------- the listing of depositions ---------------------- *)

\* A client on the sandbox with a token, and a server with any listing.
PagesInit ==
    /\ listing \in Listings
    /\ title = None
    /\ bucket = None
    /\ deposition_id = None
    /\ concept_id = None
    /\ associated = FALSE
    /\ sandbox = Some(TRUE)
    /\ _endpoint = Endpoint(sandbox)
    /\ _doi_pattern = DoiPattern(sandbox)
    /\ _token = Some("t")
    /\ server = EmptyServer
    /\ disk = LocalFiles
    /\ op = [name |-> "__init__", args |-> <<title, bucket, deposition_id, sandbox>>]
    /\ reqs = << >>
    /\ raised = NoExc
    /\ result = None
    /\ calls = 0

GetAllDepositions ==
    \E F \in FaultSets(MaxPages) :
        Ends("get_all_depositions", << >>, get_all_depositions(Machine(F, FALSE), listing))

PagesNext ==
    \/ NextCall
    \/ GetAllDepositions

PagesSpec == PagesInit /\ [][PagesNext]_vars

(* ------------------------------- claims -------------------------------- *)

\* The session is in the unassociated state.
Unassociated(t, b, d, c, a) ==
    t = None /\ b = None /\ d = None /\ c = None /\ a = FALSE

\* Some request of the last operation was answered with an error.
SomeRequestFailed == \E i \in 1..Len(reqs) : ~reqs[i].ok

\* Request r is the POST of a publish action.
IsPublishPost(r) ==
    r.method = "POST" /\ Len(r.url) = 4 /\ r.url[1] = "depositions" /\ r.url[4] = "publish"

\* C1: after construction and after every operation, associated is true
\* exactly when deposition_id is not None.
C1_AssociatedIffDepositionId == associated = (deposition_id # None)

\* C2: after a set_project(id) that returned, deposition_id is id, title,
\* bucket and concept_id are the title, links.bucket and conceptrecid the
\* server answers for id, and associated is true.
C2_SetProjectTakesResponse ==
    (op.name = "set_project" /\ raised = NoExc) =>
        /\ deposition_id = op.args[1]
        /\ title = Some(DepositionJson(server, Val(op.args[1])).title)
        /\ bucket = Some(DepositionJson(server, Val(op.args[1])).bucket)
        /\ concept_id = Some(DepositionJson(server, Val(op.args[1])).conceptrecid)
        /\ associated = TRUE

\* A set_project of deposition 2 returned while deposition 1 exists too.
C2_Witness ==
    /\ op.name = "set_project"
    /\ raised = NoExc
    /\ op.args[1] = Some(2)
    /\ Exists(server, Some(1))
    /\ title # Some(server.deps[1].title)

\* A create_project in which the POST and the PUT were answered with success.
CreateSucceeded ==
    op.name = "create_project" /\ raised = NoExc /\ Len(reqs) >= 1 /\ reqs[1].ok

\* C3: a successful create_project issued exactly two requests: a POST of {}
\* to the depositions collection, then a PUT to the new deposition whose
\* metadata holds the title, upload_type and description given (their
\* placeholders when not supplied) and the one placeholder creator.
C3_CreateIssuesPostThenPut ==
    CreateSucceeded =>
        /\ Len(reqs) = 2
        /\ reqs[1].method = "POST"
        /\ reqs[1].url = UrlDepositions
        /\ reqs[1].body = Some(EmptyJson)
        /\ reqs[2].method = "PUT"
        /\ reqs[2].url = UrlDeposition(Some(server.next - 1))
        /\ reqs[2].body =
             Some([metadata |->
                 [title       |-> IF op.args[1] = None THEN "Title goes here"
                                  ELSE Val(op.args[1]),
                  upload_type |-> IF op.args[2] = None THEN "other"
                                  ELSE Val(op.args[2]),
                  description |-> IF op.args[3] = None THEN "Description goes here"
                                  ELSE Val(op.args[3]),
                  creators    |-> <<[name |-> "Creator goes here"]>>]])

\* A successful create_project with a title and an upload_type of its own.
C3_Witness ==
    /\ CreateSucceeded
    /\ op.args[1] = Some("A")
    /\ op.args[2] = Some("dataset")

\* C4: after a successful create_project the session is associated to the
\* deposition the POST created: its id, its bucket, and the title argument.
C4_CreateAssociatesNewDeposition ==
    CreateSucceeded =>
        /\ associated = TRUE
        /\ deposition_id = Some(server.next - 1)
        /\ bucket = Some(BucketUrl(server.next - 1))
        /\ title = op.args[1]
        /\ Exists(server, deposition_id)

\* A successful create_project of a second deposition.
C4_Witness == CreateSucceeded /\ deposition_id = Some(2) /\ Exists(server, Some(1))

\* C5: a create_project one of whose requests failed raises nothing and
\* leaves the session fields as they were.
C5_CreateFailureIsSilent ==
    [][(op'.name = "create_project" /\ SomeRequestFailed')
          => (raised' = NoExc /\ session' = session)]_vars

\* C6: a set_project that failed on one of its GETs leaves the session
\* unassociated, every field None.
C6_SetProjectFailureClears ==
    (op.name = "set_project" /\ raised # NoExc) =>
        Unassociated(title, bucket, deposition_id, concept_id, associated)

\* C7: a delete that succeeded clears the session when it deleted the
\* associated deposition, and leaves the session as it was otherwise.
C7_DeleteClearsAssociated ==
    [][(op'.name = "_delete_project" /\ raised' = NoExc)
          => IF op'.args[1] = None \/ op'.args[1] = deposition_id
             THEN Unassociated(title', bucket', deposition_id', concept_id', associated')
             ELSE session' = session]_vars

\* The operations that require an associated deposition.
GuardedOps ==
    {"upload_file", "update_file", "upload_zip", "upload_tar", "update", "publish",
     "download_file", "delete_file"}

\* C8: an operation that requires an associated deposition, called while
\* associated is false, issues no request.
C8_UnassociatedIssuesNothing ==
    [][(~associated /\ op'.name \in GuardedOps) => reqs' = << >>]_vars

\* C9: publish() on an associated deposition that is already published
\* sends no publish POST, raises nothing, returns nothing and changes
\* neither the session nor the server.
C9_PublishOfPublishedIsNoOp ==
    [][(op'.name = "publish" /\ associated /\ Submitted(server, deposition_id))
          => /\ \A i \in 1..Len(reqs') : ~IsPublishPost(reqs'[i])
             /\ raised' = NoExc
             /\ result' = None
             /\ session' = session
             /\ server' = server]_vars

\* C10: no publish request is ever sent for a deposition that is already
\* published.
C10_NoPublishOfPublished ==
    \A i \in 1..Len(reqs) : IsPublishPost(reqs[i]) => ~reqs[i].target_submitted

\* The running call is update_file on an associated deposition that is
\* published, and its second request, the newversion POST, succeeded.
UpdateFileMadeDraft ==
    /\ op'.name = "update_file"
    /\ associated
    /\ Submitted(server, deposition_id)
    /\ Len(reqs') >= 2
    /\ reqs'[2].url = UrlAction(deposition_id, "newversion")
    /\ reqs'[2].ok

\* C11: in update_file on a published deposition, every request after the
\* creation of the new-version draft is addressed to the draft or to the
\* draft's bucket.
C11_UpdateFileTargetsDraft ==
    [][UpdateFileMadeDraft =>
          \A i \in 3..Len(reqs') :
              UrlTarget(server', reqs'[i].url) = Some(server.next)]_vars

\* The running call is update_file or update on an associated deposition
\* that is published, and its newversion POST succeeded.
MadeDraft ==
    /\ op'.name \in {"update_file", "update"}
    /\ associated
    /\ Submitted(server, deposition_id)
    /\ Len(reqs') >= 2
    /\ reqs'[2].url = UrlAction(deposition_id, "newversion")
    /\ reqs'[2].ok

\* C12: when update_file or update with publish=False returns on a published
\* deposition, the new draft is unpublished and is the associated
\* deposition: deposition_id and bucket are the draft's.
C12_DraftBecomesAssociated ==
    [][(MadeDraft /\ raised' = NoExc /\ op'.args[Len(op'.args)] = FALSE)
          => /\ Exists(server', Some(server.next))
             /\ ~Submitted(server', Some(server.next))
             /\ deposition_id' = Some(server.next)
             /\ bucket' = Some(BucketUrl(server.next))]_vars

\* The positions of the publish POSTs in the log of the last operation.
PublishPosts == {i \in 1..Len(reqs) : IsPublishPost(reqs[i])}

\* C13: update_file with publish=True posts the publish action once, as its
\* last request, and returns the published JSON; with publish=False it posts
\* no publish action and returns the JSON of the unpublished draft.
C13_UpdateFilePublishesOnce ==
    (op.name = "update_file" /\ Len(reqs) > 0) =>
        IF op.args[3]
        THEN /\ Cardinality(PublishPosts) <= 1
             /\ raised = NoExc =>
                    /\ PublishPosts = {Len(reqs)}
                    /\ result # None
                    /\ "submitted" \in DOMAIN Val(result)
                    /\ Val(result).submitted
        ELSE /\ PublishPosts = {}
             /\ raised = NoExc =>
                    /\ result # None
                    /\ "submitted" \in DOMAIN Val(result)
                    /\ ~Val(result).submitted

\* Every request of the last operation from the second on: the first one of
\* update_file only reads whether the deposition is published.
Steps == 2..Len(reqs)

\* C14: in update_file a step answered without success raises an exception
\* and is the last request of the call.
C14_FailedStepAborts ==
    op.name = "update_file" =>
        \A i \in Steps : ~reqs[i].ok => (i = Len(reqs) /\ raised # NoExc)

\* C15: upload_file issues the requests of publish only if publish is set and
\* the upload PUT was answered with success.
C15_UploadFilePublishesOnSuccess ==
    (op.name = "upload_file" /\ Len(reqs) > 0) =>
        (Len(reqs) > 1 <=> (op.args[3] /\ reqs[1].ok))

\* The metadata PUTs in the log of the running update_file.
MetadataPuts ==
    {i \in 1..Len(reqs') : reqs'[i].method = "PUT" /\ reqs'[i].url[1] = "depositions"}

GotMetadata == _get_metadata(Machine({}, FALSE), None).ret

\* C17: after a _set_metadata({k: v}) whose PUT succeeded on a deposition
\* that had metadata, _get_metadata() yields v for k and, for every other
\* field the metadata had, the value it had.
C17_SetMetadataMerges ==
    [][(/\ op'.name = "_set_metadata"
        /\ GotMetadata # None
        /\ Len(reqs') = 2
        /\ reqs'[2].ok)
          => /\ GotMetadata' # None
             /\ \A k \in DOMAIN op'.args[1] :
                    /\ k \in DOMAIN Val(GotMetadata')
                    /\ Val(GotMetadata')[k] = op'.args[1][k]
             /\ \A f \in DOMAIN Val(GotMetadata) \ DOMAIN op'.args[1] :
                    /\ f \in DOMAIN Val(GotMetadata')
                    /\ Val(GotMetadata')[f] = Val(GotMetadata)[f]]_vars

\* C18: change_metadata of a client with a token issues one PUT whose
\* metadata is the four required
\* fields, each the argument or its placeholder, with the keyword fields on
\* top, whatever metadata the deposition has; once the PUT succeeded the
\* deposition has no version unless one was passed.
C18_ChangeMetadataOverwrites ==
    (op.name = "change_metadata" /\ _token # None) =>
        /\ Len(reqs) = 1
        /\ reqs[1].method = "PUT"
        /\ reqs[1].url = UrlDeposition(op.args[1])
        /\ Val(reqs[1].body).metadata.title =
               (IF op.args[2] = None THEN "Title goes here" ELSE Val(op.args[2]))
        /\ Val(reqs[1].body).metadata.upload_type =
               (IF op.args[3] = None THEN "other" ELSE Val(op.args[3]))
        /\ Val(reqs[1].body).metadata.description =
               (IF op.args[4] = None THEN "Description goes here" ELSE Val(op.args[4]))
        /\ Val(reqs[1].body).metadata.creators =
               <<[name |-> IF op.args[5] = None THEN "Creator goes here" ELSE Val(op.args[5])]>>
        /\ DOMAIN Val(reqs[1].body).metadata =
               {"title", "upload_type", "description", "creators"} \cup DOMAIN op.args[6]
        /\ \A k \in DOMAIN op.args[6] : Val(reqs[1].body).metadata[k] = op.args[6][k]
        /\ reqs[1].ok =>
               server.deps[Val(op.args[1])].version =
                   (IF "version" \in DOMAIN op.args[6] THEN Some(op.args[6].version) ELSE None)

\* change_metadata with a title and no keyword fields succeeded on the
\* deposition the session is associated with.
C18_Witness ==
    /\ op.name = "change_metadata"
    /\ associated
    /\ op.args[1] = deposition_id
    /\ op.args[2] = Some("A")
    /\ op.args[6] = << >>
    /\ reqs[1].ok
    /\ Metadata(server, Val(deposition_id)) = [title |-> "A"]

\* The running call is upload_zip or upload_tar on an associated client.
ArchiveCall == op'.name \in {"upload_zip", "upload_tar"} /\ associated

\* The extension the running archive operation accepts.
ArchiveExtension == IF op'.name = "upload_zip" THEN ".zip" ELSE ".tar.gz"

\* The output path of the running archive operation: the one given, or the
\* source's name with the extension.
OutputPath ==
    IF op'.args[2] = None THEN Val(op'.args[1]) \o ArchiveExtension
    ELSE Val(op'.args[2])

\* C19: upload_zip and upload_tar raise when output_file has the extension
\* .rar or when the output path exists; they issue no request and leave the
\* files on disk and the server as they were.
C19_ArchiveRejected ==
    [][(ArchiveCall /\ (op'.args[2] = Some("out.rar") \/ OutputPath \in disk))
          => /\ raised' # NoExc
             /\ reqs' = << >>
             /\ disk' = disk
             /\ server' = server]_vars

\* upload_zip has refused to write over the archive old.zip, which exists.
C19_Witness ==
    /\ op.name = "upload_zip"
    /\ associated
    /\ op.args[1] = Some("dst")
    /\ op.args[2] = Some("old.zip")
    /\ "old.zip" \in disk
    /\ raised = "Exception"

\* C20: upload_zip and upload_tar given an output_file without extension
\* upload the archive under that name with the extension appended.
C20_ExtensionAppended ==
    [][(/\ ArchiveCall
        /\ bucket # None
        /\ op'.args[1] = Some("dst")
        /\ op'.args[2] = Some("out"))
          => /\ raised' = NoExc
             /\ Len(reqs') >= 1
             /\ reqs'[1].method = "PUT"
             /\ reqs'[1].url = UrlBucket(bucket, Some("out" \o ArchiveExtension))]_vars


\* The path of the archive the running archive operation builds: the output
\* path, with the extension appended when it has none.
ArchivePath ==
    IF Extension(OutputPath) = "" THEN OutputPath \o ArchiveExtension ELSE OutputPath

C22_DownloadFailureIsReported ==
    [][op'.name = "download_file"
          => /\ raised' = NoExc
             /\ (\/ op'.args[2] # None /\ Val(op'.args[2]) \notin LocalDirs
                 \/ reqs' = << >>
                 \/ ~reqs'[1].ok) => disk' = disk
             /\ disk' # disk
                  => disk' = disk \cup {IF op'.args[2] = None THEN Val(op'.args[1])
                                        ELSE Val(op'.args[2]) \o "/" \o Val(op'.args[1])}]_vars

\* C28: whenever the client is associated, concept_id is set and is the
\* conceptrecid of the deposition deposition_id names, also after a
\* create_project, whether or not a set_project came before it.
C28_ConceptIdOfAssociated ==
    associated
        => /\ concept_id # None
           /\ Exists(server, deposition_id)
                => concept_id = Some(server.deps[Val(deposition_id)].conceptrecid)

\* C29: whenever the client is not associated, title and bucket are None:
\* after construction, after a set_project whose second GET failed, after the
\* deletion of the associated deposition.
C29_UnassociatedHasNoTitleNoBucket ==
    ~associated => title = None /\ bucket = None

\* The draft the running update_file works on: the new version it made of a
\* published deposition, else the associated deposition.
UpdateFileDraft == IF UpdateFileMadeDraft THEN Some(server.next) ELSE deposition_id

\* The positions of the DELETEs in the log of the running operation.
FileDeletes == {i \in 1..Len(reqs') : reqs'[i].method = "DELETE"}

\* The positions of the upload PUTs in the log of the running operation.
UploadPuts == {i \in 1..Len(reqs') : reqs'[i].method = "PUT" /\ reqs'[i].url[1] = "bucket"}

C23_IsPublished ==
    [][op'.name = "is_published"
          => /\ session' = session
             /\ deposition_id = None
                  => reqs' = << >> /\ raised' = NoExc /\ result' = None
             /\ (deposition_id # None /\ _token # None)
                  => /\ Len(reqs') = 1
                     /\ reqs'[1].method = "GET"
                     /\ reqs'[1].url = UrlDeposition(deposition_id)
                     /\ raised' = NoExc
                     /\ result' = Some(TRUE)
                          <=> (reqs'[1].ok /\ Submitted(server, deposition_id))
                     /\ ~reqs'[1].ok => result' = None]_vars

\* is_published has answered true for the published deposition 1.
C23_Witness ==
    /\ op.name = "is_published"
    /\ deposition_id = Some(1)
    /\ Submitted(server, deposition_id)
    /\ Len(reqs) = 1
    /\ reqs[1].ok
    /\ result = Some(TRUE)

\* C24: list_files of an associated client returns the filenames of the
\* deposition's files array in the order of the response; of a client that
\* is not associated it returns the empty list without raising and without
\* a request.
C24_ListFiles ==
    [][op'.name = "list_files"
          => /\ ~associated
                  => reqs' = << >> /\ raised' = NoExc /\ result' = Some(<< >>)
             /\ (associated /\ raised' = NoExc)
                  => result' = Some(FilesArray(server.deps[Val(deposition_id)].files))]_vars

\* C26: a client constructed without a token, the token file or its key
\* being absent, raises no local exception: a call that needs the server is
\* sent and answered with an error.
C26_NoTokenIsServerError ==
    (_token = None /\ ~Idle)
        => /\ raised # "TypeError"
           /\ op.name \in {"set_project", "create_project"}
                => Len(reqs) >= 1 /\ ~reqs[1].ok

\* C27: the endpoint and the DOI pattern are those of the sandbox when the
\* client was constructed with sandbox true and those of production
\* otherwise, and no operation changes them or the token.
C27_EndpointBySandbox ==
    /\ [](IF sandbox = Some(TRUE)
          THEN /\ _endpoint = "https://sandbox.zenodo.org/api"
               /\ _doi_pattern = "^10\\.5072/zenodo\\.\\d+$"
          ELSE /\ _endpoint = "https://zenodo.org/api"
               /\ _doi_pattern = "^10\\.5281/zenodo\\.\\d+$")
    /\ [][/\ _endpoint' = _endpoint
          /\ _doi_pattern' = _doi_pattern
          /\ _token' = _token
          /\ sandbox' = sandbox]_vars

\* A client constructed without the sandbox flag has created a project and
\* still points to production.
C27_Witness ==
    /\ sandbox = None
    /\ op.name = "create_project"
    /\ associated
    /\ _endpoint = "https://zenodo.org/api"
    /\ _doi_pattern = "^10\\.5281/zenodo\\.\\d+$"
    /\ _token = Some("s")

\* C25: get_all_depositions gets the pages in order up to the last one or up
\* to the first empty one, and returns, in the order it met them, the first
\* deposition of every conceptrecid of those pages, also when the versions
\* of one concept are on different pages.
C25_GetAllDepositions ==
    (op.name = "get_all_depositions" /\ raised = NoExc)
        => LET Pages == {p \in 1..Len(listing) : \A q \in 1..p : listing[q] # << >>}
               Visited == {x \in Pages \X (1..MaxPageLen) : x[2] <= Len(listing[x[1]])}
               Before(x, y) == x[1] < y[1] \/ (x[1] = y[1] /\ x[2] < y[2])
               Concept(x) == listing[x[1]][x[2]].conceptrecid
               Firsts == {x \in Visited :
                             \A y \in Visited : Before(y, x) => Concept(y) # Concept(x)}
               Rank(x) == Cardinality({y \in Firsts : Before(y, x)}) + 1
           IN  /\ Len(Val(result)) = Cardinality(Firsts)
               /\ \A x \in Firsts : Val(result)[Rank(x)] = listing[x[1]][x[2]]
               /\ Len(reqs) = IF Cardinality(Pages) = Len(listing) THEN Len(listing)
                              ELSE Cardinality(Pages) + 1

\* get_all_depositions has returned the first of two versions of one concept
\* that are on different pages, after a deposition of another concept.
C25_Witness ==
    /\ op.name = "get_all_depositions"
    /\ raised = NoExc
    /\ Len(listing) = 2
    /\ Len(listing[1]) = 2
    /\ listing[1][1].conceptrecid = "c2"
    /\ listing[1][2].conceptrecid = "c1"
    /\ Len(listing[2]) = 1
    /\ listing[2][1].conceptrecid = "c1"
    /\ result = Some(listing[1])
=============================================================================
